---- MODULE Spec2Model ----
(***************************************************************************)
(* Machine operator monitor: the frame-processing worker (frameRunner),    *)
(* its operator state tracker, the publish worker (messageRunner) and the  *)
(* orchestrating main loop, with the Go channels that connect them.        *)
(*                                                                         *)
(* Time is an integer wall clock.  The zero time.Time (the value of a      *)
(* marker that was never written) is ZeroTime, and the program starts at   *)
(* clock reading Epoch, far later than ZeroTime plus any timeout.          *)
(* Angles are in half degrees, confidences in percent.                     *)
(***************************************************************************)
EXTENDS Integers, Sequences, FiniteSets, TLC

\* ---------------------------------------------------------------- bounds
\* cycles of the worker loop in the tracker specification
MaxCycles == 3
\* clock ticks after program start in the tracker specification
MaxTime == 3
\* frames the source delivers before it is exhausted (pipeline)
MaxFrames == 2
\* clock ticks after program start in the pipeline specification
MaxClock == 2
WatchTicks == 2
AwayTicks == 7
MaxResults == 3

\* ------------------------------------------------------- program constants
\* the zero value of time.Time, held by both markers of new(Operator)
ZeroTime == 0
\* wall-clock reading at program start
Epoch == 10
\* default of the flags -angry-timeout and -watch-timeout, 5*time.Second
\* (the clock unit is one second)
DefaultTimeout == 5
\* the values the two timeout flags take in the tracker specification
TimeoutSet == {1, 2}
\* -sent-confidence default 0.5, in percent
sentConfidence == 50
\* 22.5 degrees, in half degrees
PoseLimit == 45
\* row of the "anger" class in the emotion network's output
AngryRow == 4
\* ticker period (flag -rate) in clock units
rate == 1
\* capacity of framesChan, resultsChan, perfChan and pubChan
ChanCap == 1

\* ------------------------------------------------------------- detection
\* One located face rectangle with what the two networks return for it.
\*   inside : the rectangle lies completely inside the frame
\*   yaw, pitch, roll : outputs of layers angle_y_fc, angle_p_fc, angle_r_fc
\*   sent : the five emotion confidences, rows 0..4
Face(ins, y, p, r, s) == [inside |-> ins, yaw |-> y, pitch |-> p, roll |-> r, sent |-> s]

CalmSent == <<90, 0, 0, 0, 10>>
AngrySent == <<10, 0, 0, 0, 90>>

FaceWatchCalm == Face(TRUE, 0, 0, 0, CalmSent)
FaceAwayCalm == Face(TRUE, 60, 0, 0, CalmSent)
FaceWatchAngry == Face(TRUE, 0, 0, 0, AngrySent)
FaceAwayAngry == Face(TRUE, 0, -60, 0, AngrySent)
FaceOutside == Face(FALSE, 0, 0, 0, AngrySent)

\* The frames the video source delivers in the tracker and pipeline
\* specifications: a frame is the sequence of face rectangles detectFaces
\* finds in it.
SourceFrames ==
  { <<>>, <<FaceWatchCalm>>, <<FaceAwayCalm>>, <<FaceWatchAngry>>, <<FaceAwayAngry>> }

\* the frames the source delivers in the pipeline specification: one with no
\* face and one with a face
PipeFrames == { <<>>, <<FaceAwayAngry>> }

\* new(Status)
NewStatus == [IsWatching |-> FALSE, IsAngry |-> FALSE, checked |-> FALSE]

\* gocv.MinMaxLoc over the reshaped 5x1 result: the maximum and its first row
MaxVal(s) == CHOOSE v \in {s[i] : i \in 1..Len(s)} : \A i \in 1..Len(s) : s[i] <= v
MaxLocY(s) == (CHOOSE i \in 1..Len(s) : s[i] = MaxVal(s) /\ \A j \in 1..(i-1) : s[j] # MaxVal(s)) - 1

\* mutant: the bounds themselves count as watching
PoseWatching_inclusive(f) ==
  (f.yaw >= -PoseLimit /\ f.yaw <= PoseLimit) /\ (f.pitch >= -PoseLimit /\ f.pitch <= PoseLimit)

\* the head is tilted less than 22.5 degrees in yaw and in pitch
PoseWatching(f) ==
  (f.yaw > -PoseLimit /\ f.yaw < PoseLimit) /\ (f.pitch > -PoseLimit /\ f.pitch < PoseLimit)

\* mutant: a confidence equal to the threshold counts as angry
SentAngry_atThreshold(f) == MaxVal(f.sent) >= sentConfidence /\ MaxLocY(f.sent) = AngryRow

\* the most likely mood is anger, with confidence above the threshold
SentAngry(f) == MaxVal(f.sent) > sentConfidence /\ MaxLocY(f.sent) = AngryRow

\* mutant: an iteration that classifies the region wherever it lies
DetectFace_noInsideCheck(s, f) ==
  [IsWatching |-> (s.IsWatching \/ PoseWatching(f)),
   IsAngry |-> (s.IsAngry \/ SentAngry(f)),
   checked |-> TRUE]

\* one iteration of detectStatus's loop over the faces
DetectFace(s, f) ==
  IF ~f.inside THEN s
  ELSE [IsWatching |-> (s.IsWatching \/ PoseWatching(f)),
        IsAngry |-> (s.IsAngry \/ SentAngry(f)),
        checked |-> TRUE]

RECURSIVE DetectLoop(_, _)
DetectLoop(s, faces) ==
  IF faces = <<>> THEN s ELSE DetectLoop(DetectFace(s, Head(faces)), Tail(faces))

detectStatus(faces) == DetectLoop(NewStatus, faces)

\* ---- the frames of the detection specification
MaxFaces == 2

\* angles around the two bounds, in half degrees
AngleSet == {-PoseLimit, 1 - PoseLimit, 0, PoseLimit - 1, PoseLimit}
RollSet == {0, 2 * PoseLimit}

\* anger the most likely mood with confidence at the threshold, and just
\* above it
AtThresholdSent == <<10, 10, 10, 20, sentConfidence>>
AboveThresholdSent == <<10, 10, 10, 19, sentConfidence + 1>>
\* anger and the first mood with the same confidence
TiedSent == <<60, 0, 0, 0, 60>>
SentSet == {CalmSent, AngrySent, AtThresholdSent, AboveThresholdSent, TiedSent}

FaceSet ==
  { Face(ins, y, p, r, s) : ins \in BOOLEAN, y \in AngleSet, p \in AngleSet,
                            r \in RollSet, s \in SentSet }

NamedFaces == {FaceWatchCalm, FaceAwayCalm, FaceWatchAngry, FaceAwayAngry, FaceOutside}

\* the sequences of n faces over S
RECURSIVE FacesOfLen(_, _)
FacesOfLen(S, n) ==
  IF n = 0 THEN {<<>>}
  ELSE {Append(fs, f) : fs \in FacesOfLen(S, n - 1), f \in S}

\* what detectFaces can return: no face, one face of any position, pose and
\* mood, or up to MaxFaces of the named faces
DetectFrames ==
  FacesOfLen(FaceSet, 1) \cup UNION {FacesOfLen(NamedFaces, n) : n \in 0..MaxFaces}

\* ------------------------------------------------------------- variables
VARIABLES
  clock,          \* wall clock (time.Now)
  watchTimeout,   \* flag -watch-timeout
  angryTimeout,   \* flag -angry-timeout
  publish,        \* flag -publish
  o,              \* the Operator owned by frameRunner
  hist,           \* tracker specification: the cycles processed so far
  img,            \* main's image buffer, shared by pointer with frameRunner
  nread,          \* frames read from the source so far
  framesChan, resultsChan, perfChan, pubChan, errChan,
  tickerC,        \* the ticker's channel: the time of the tick it holds
  doneClosed,     \* doneChan has been closed
  sigChan,        \* sigChan holds a signal
  wg,             \* the WaitGroup counter
  main_pc, result, perf,          \* main: position, last result, last perf
  exitBy,         \* main: the way the monitor loop was left
  fr_pc, fr_status, fr_result,    \* frameRunner: position, locals
  mr_pc,          \* messageRunner: position
  sent,           \* messages accepted by the MQTT broker, in order
  plog,           \* what happened at the publish mailbox and the ticker, in order
  torn,           \* main wrote the buffer after frameRunner took its pointer
  mem,            \* memory specification: the Status, Result and Perf objects
  wire            \* payload specification: the telemetry messages sent and read back

cfgVars == <<watchTimeout, angryTimeout, publish>>
chanVars == <<framesChan, resultsChan, perfChan, pubChan, errChan>>
mainVars == <<main_pc, result, perf, img, nread, exitBy>>
frVars == <<fr_pc, fr_status, fr_result, o>>
vars == <<clock, cfgVars, hist, chanVars, tickerC, doneClosed, sigChan, wg,
          mainVars, frVars, mr_pc, sent, plog, torn, mem, wire>>

\* ---------------------------------------------------- operator state tracker
Snapshot(w, a) == [IsWatching |-> w, IsAngry |-> a]

\* new(Operator) with now, prev = new(Status), new(Status)
NewOperator ==
  [now |-> Snapshot(FALSE, FALSE), prev |-> Snapshot(FALSE, FALSE),
   timeStoppedWatching |-> ZeroTime, timeStartAngry |-> ZeroTime]

\* time.Since(mark) read at clock reading t
Since(t, mark) == t - mark

\* o.now.IsWatching = status.IsWatching; o.now.IsAngry = status.IsAngry
SetNow(op, status) ==
  IF status.checked
  THEN [op EXCEPT !.now = Snapshot(status.IsWatching, status.IsAngry)]
  ELSE op

\* mutant: the edges are taken from the detected status, checked or not
RecordEdges_anyStatus(op, status, t) ==
  [op EXCEPT
     !.timeStoppedWatching = IF op.prev.IsWatching /\ ~status.IsWatching THEN t ELSE @,
     !.timeStartAngry = IF ~op.prev.IsAngry /\ status.IsAngry THEN t ELSE @]

\* the two "record the time" statements
RecordEdges(op, status, t) ==
  IF status.checked
  THEN [op EXCEPT
          !.timeStoppedWatching = IF op.prev.IsWatching /\ ~op.now.IsWatching THEN t ELSE @,
          !.timeStartAngry = IF ~op.prev.IsAngry /\ op.now.IsAngry THEN t ELSE @]
  ELSE op

\* mutant: the watching alert tests only the previous snapshot
alertWatching_noNow(op, status, t) ==
  /\ status.checked
  /\ ~op.prev.IsWatching
  /\ Since(t, op.timeStoppedWatching) > watchTimeout

\* mutant: the watching alert is compared with the angry timeout
alertWatching_angryTimeout(op, status, t) ==
  /\ status.checked
  /\ ~op.prev.IsWatching /\ ~op.now.IsWatching
  /\ Since(t, op.timeStoppedWatching) > angryTimeout

\* mutant: the alert is raised as soon as the elapsed time reaches the timeout
alertWatching_atTimeout(op, status, t) ==
  /\ status.checked
  /\ ~op.prev.IsWatching /\ ~op.now.IsWatching
  /\ Since(t, op.timeStoppedWatching) >= watchTimeout

\* the value of local alertWatching at the end of the if-block
alertWatching(op, status, t) ==
  /\ status.checked
  /\ ~op.prev.IsWatching /\ ~op.now.IsWatching
  /\ Since(t, op.timeStoppedWatching) > watchTimeout

\* mutant: the angry alert is computed outside the if status.checked block
alertAngry_unguarded(op, status, t) ==
  /\ op.prev.IsAngry /\ op.now.IsAngry
  /\ Since(t, op.timeStartAngry) > watchTimeout

\* the value of local alertAngry at the end of the if-block
alertAngry(op, status, t) ==
  /\ status.checked
  /\ op.prev.IsAngry /\ op.now.IsAngry
  /\ Since(t, op.timeStartAngry) > watchTimeout

\* the operator after the if status.checked block
UpdateOperator(op, status, t) == RecordEdges(SetNow(op, status), status, t)

\* &Result{status, AlertWatching, AlertAngry}; id names the frame it was
\* computed from
NewResult(op, status, t, id) ==
  [status |-> status,
   AlertWatching |-> alertWatching(op, status, t),
   AlertAngry |-> alertAngry(op, status, t),
   id |-> id]

\* "latest status is now prev status"
SetPrev(op, status) ==
  [op EXCEPT !.prev = Snapshot(status.IsWatching, status.IsAngry)]

\* ------------------------------------------------------------ objects
\* The Status objects the program allocates, by address (their index in
\* obj); now and prev are the pointers o.now and o.prev; results and perfs
\* are the Result and Perf objects emitted so far, each with the values it
\* was constructed with (made).
\* operator.now, operator.prev = new(Status), new(Status)
NewMemory ==
  [obj |-> <<NewStatus, NewStatus>>, now |-> 1, prev |-> 2,
   results |-> <<>>, perfs |-> <<>>]

\* the Operator as frameRunner reads it through o.now and o.prev
OperatorAt(m, op) ==
  [op EXCEPT !.now = Snapshot(m.obj[m.now].IsWatching, m.obj[m.now].IsAngry),
             !.prev = Snapshot(m.obj[m.prev].IsWatching, m.obj[m.prev].IsAngry)]

\* p.IsWatching = ...; p.IsAngry = ... for the object at address a
WriteFields(obj, a, snap) ==
  [obj EXCEPT ![a] = [@ EXCEPT !.IsWatching = snap.IsWatching, !.IsAngry = snap.IsAngry]]

\* mutant: o.now = status in place of the two field assignments
NowPointer_alias(m, a) == a

\* o.now after the if status.checked block: the pointer is never assigned,
\* only the fields of the object it points to
NowPointer(m, a) == m.now

\* ------------------------------------------------------------ initial state
\* new(Result): no status yet
NilStatus == [nil |-> TRUE]
NilResult == [status |-> NilStatus, AlertWatching |-> FALSE, AlertAngry |-> FALSE, id |-> 0]
\* new(Perf)
NilPerf == [id |-> 0, checked |-> FALSE]
\* gocv.NewMat()
EmptyImg == [id |-> 0, faces |-> <<>>, drawn |-> FALSE]

\* mutant: the MQTT worker is started without wg.Add(1)
WgInit_noPublisher(pub) == 1

\* wg.Add(1) for the MQTT worker if publishing, wg.Add(1) for frameRunner
WgInit(pub) == (IF pub THEN 1 ELSE 0) + 1

\* The state when main enters its monitor loop: flags parsed, channels made,
\* the worker goroutines started.
InitRest ==
  /\ clock = Epoch
  /\ o = NewOperator
  /\ hist = <<>>
  /\ img = EmptyImg
  /\ nread = 0
  /\ framesChan = <<>> /\ resultsChan = <<>> /\ perfChan = <<>>
  /\ pubChan = <<>> /\ errChan = <<>>
  /\ tickerC = <<>>
  /\ doneClosed = FALSE
  /\ sigChan = FALSE
  /\ wg = WgInit(publish)
  /\ main_pc = "read" /\ result = NilResult /\ perf = NilPerf
  /\ exitBy = "none"
  /\ fr_pc = "select" /\ fr_status = NewStatus /\ fr_result = NilResult
  /\ mr_pc = IF publish THEN "select" ELSE "none"
  /\ sent = <<>>
  /\ plog = <<>>
  /\ torn = FALSE
  /\ mem = NewMemory
  /\ wire = <<>>

\* the pipeline runs with the default timeouts, with and without -publish
Init ==
  /\ watchTimeout = DefaultTimeout
  /\ angryTimeout = DefaultTimeout
  /\ publish \in BOOLEAN
  /\ InitRest

\* ------------------------------------------------- tracker specification
\* frameRunner's loop body run on a stream of frames, one whole iteration
\* per step, with every channel send accepted at once.
pipeVars == <<cfgVars, chanVars, tickerC, doneClosed, sigChan, wg, mainVars,
              fr_pc, mr_pc, sent, plog, torn>>

TrackerTick ==
  /\ clock < Epoch + MaxTime
  /\ clock' = clock + 1
  /\ UNCHANGED <<pipeVars, frVars, hist, mem, wire>>

TrackerCycle ==
  /\ Len(hist) < MaxCycles
  /\ \E faces \in SourceFrames :
       LET status == detectStatus(faces)
           o1 == UpdateOperator(o, status, clock)
           res == NewResult(o1, status, clock, Len(hist) + 1)
       IN /\ fr_status' = status
          /\ fr_result' = res
          /\ o' = SetPrev(o1, status)
          /\ hist' = Append(hist, [status |-> status, t |-> clock, result |-> res,
                                   o |-> SetPrev(o1, status)])
  /\ UNCHANGED <<clock, pipeVars, fr_pc, mem, wire>>

\* the tracker runs under every pair of timeouts of TimeoutSet
InitTracker ==
  /\ watchTimeout \in TimeoutSet
  /\ angryTimeout \in TimeoutSet
  /\ publish = FALSE
  /\ InitRest

NextTracker == TrackerTick \/ TrackerCycle

SpecTracker == InitTracker /\ [][NextTracker]_vars

\* ------------------------------------------------ Scenario A specification
\* frameRunner's loop body on a stream that delivers one checked frame per
\* second: the operator watches on the first WatchTicks frames and looks away
\* on the AwayTicks frames after them, angry or calm.  One step is one whole
\* iteration and the second that passes before the next frame.
ScenarioFrames(k) ==
  IF k <= WatchTicks
  THEN {<<FaceWatchCalm>>, <<FaceWatchAngry>>}
  ELSE {<<FaceAwayCalm>>, <<FaceAwayAngry>>}

ScenarioCycle ==
  /\ Len(hist) < WatchTicks + AwayTicks
  /\ \E faces \in ScenarioFrames(Len(hist) + 1) :
       LET status == detectStatus(faces)
           o1 == UpdateOperator(o, status, clock)
           res == NewResult(o1, status, clock, Len(hist) + 1)
       IN /\ fr_status' = status
          /\ fr_result' = res
          /\ o' = SetPrev(o1, status)
          /\ hist' = Append(hist, [status |-> status, t |-> clock, result |-> res,
                                   o |-> SetPrev(o1, status)])
  /\ clock' = clock + 1
  /\ UNCHANGED <<pipeVars, fr_pc, mem, wire>>

\* -watch-timeout and -angry-timeout at their default of 5 seconds
InitScenarioA ==
  /\ watchTimeout = DefaultTimeout
  /\ angryTimeout = DefaultTimeout
  /\ publish = FALSE
  /\ InitRest

SpecScenarioA == InitScenarioA /\ [][ScenarioCycle]_vars

\* ------------------------------------------------- memory specification
\* frameRunner's loop body with its objects held by address: detectStatus
\* allocates the Status, the Operator is read and written through o.now and
\* o.prev, the Result holds the pointer to the Status.  One step is one whole
\* iteration.
MemoryCycle ==
  /\ Len(mem.results) < MaxCycles
  /\ \E faces \in SourceFrames :
       LET a == Len(mem.obj) + 1
           obj1 == Append(mem.obj, detectStatus(faces))
           o1 == UpdateOperator(OperatorAt([mem EXCEPT !.obj = obj1], o), obj1[a], clock)
           obj2 == WriteFields(obj1, mem.now, o1.now)
           res == NewResult(o1, obj2[a], clock, Len(mem.results) + 1)
           obj3 == WriteFields(obj2, mem.prev,
                               Snapshot(obj2[a].IsWatching, obj2[a].IsAngry))
           m1 == [obj |-> obj3, now |-> NowPointer(mem, a), prev |-> mem.prev,
                  results |-> Append(mem.results,
                                [status |-> a, AlertWatching |-> res.AlertWatching,
                                 AlertAngry |-> res.AlertAngry, made |-> res]),
                  perfs |-> Append(mem.perfs,
                              [checked |-> obj2[a].checked,
                               made |-> [checked |-> obj2[a].checked]])]
       IN /\ mem' = m1
          /\ o' = OperatorAt(m1, o1)
          /\ fr_status' = obj3[a]
          /\ fr_result' = res
  /\ UNCHANGED <<clock, hist, pipeVars, fr_pc, wire>>

SpecMemory == InitScenarioA /\ [][MemoryCycle]_vars

\* ------------------------------------------------------------- pipeline
\* ---- main: the monitor loop
\* mutant: the frames come numbered against the order they are read in
MainRead_reversed ==
  /\ main_pc = "read"
  /\ nread < MaxFrames
  /\ \E faces \in PipeFrames :
       img' = [id |-> MaxFrames - nread, faces |-> faces, drawn |-> FALSE]
  /\ nread' = nread + 1
  /\ main_pc' = "send"
  /\ torn' = (fr_pc = "copy")
  /\ UNCHANGED <<clock, cfgVars, hist, chanVars, tickerC, doneClosed, sigChan, wg,
                 result, perf, frVars, mr_pc, sent, plog, exitBy, mem, wire>>

\* vc.Read(&img) delivers the next frame.  (A frame with img.Empty() only
\* repeats the read and is left out.)
MainRead ==
  /\ main_pc = "read"
  /\ nread < MaxFrames
  /\ \E faces \in PipeFrames :
       img' = [id |-> nread + 1, faces |-> faces, drawn |-> FALSE]
  /\ nread' = nread + 1
  /\ main_pc' = "send"
  /\ torn' = (fr_pc = "copy")
  /\ UNCHANGED <<clock, cfgVars, hist, chanVars, tickerC, doneClosed, sigChan, wg,
                 result, perf, frVars, mr_pc, sent, plog, exitBy, mem, wire>>

\* a failed read that leaves the loop past close(doneChan)
MainReadFail_noBroadcast ==
  /\ main_pc = "read"
  /\ main_pc' = "wait"
  /\ exitBy' = "eof"
  /\ UNCHANGED <<clock, cfgVars, hist, chanVars, tickerC, doneClosed, sigChan, wg,
                 result, perf, img, nread, frVars, mr_pc, sent, plog, torn, mem, wire>>

\* vc.Read fails (end of stream or read error): break
MainReadFail ==
  /\ main_pc = "read"
  /\ main_pc' = "close"
  /\ exitBy' = "eof"
  /\ UNCHANGED <<clock, cfgVars, hist, chanVars, tickerC, doneClosed, sigChan, wg,
                 result, perf, img, nread, frVars, mr_pc, sent, plog, torn, mem, wire>>

\* framesChan <- &img
MainSend ==
  /\ main_pc = "send"
  /\ Len(framesChan) < ChanCap
  /\ framesChan' = Append(framesChan, [ptr |-> "img", submitted |-> img.id])
  /\ main_pc' = "select"
  /\ UNCHANGED <<clock, cfgVars, hist, resultsChan, perfChan, pubChan, errChan,
                 tickerC, doneClosed, sigChan, wg, result, perf, img, nread,
                 frVars, mr_pc, sent, plog, exitBy, torn, mem, wire>>

\* case sig := <-sigChan, case err = <-errChan: break monitor
MainSelectStop ==
  /\ main_pc = "select"
  /\ \E c \in {"signal", "error"} :
       /\ IF c = "signal" THEN sigChan ELSE Len(errChan) > 0
       /\ sigChan' = IF c = "signal" THEN FALSE ELSE sigChan
       /\ errChan' = IF c = "error" THEN Tail(errChan) ELSE errChan
       /\ exitBy' = c
  /\ main_pc' = "close"
  /\ UNCHANGED <<clock, cfgVars, hist, framesChan, resultsChan, perfChan, pubChan,
                 tickerC, doneClosed, wg, result, perf, img, nread, frVars, mr_pc, sent, plog, torn, mem, wire>>

\* mutant: main takes the Result and leaves its Perf in perfChan
MainSelectResult_noPerf ==
  /\ main_pc = "select"
  /\ Len(resultsChan) > 0
  /\ result' = Head(resultsChan)
  /\ resultsChan' = Tail(resultsChan)
  /\ main_pc' = "render"
  /\ UNCHANGED <<clock, cfgVars, hist, framesChan, perfChan, pubChan, errChan,
                 tickerC, doneClosed, sigChan, wg, perf, img, nread, frVars, mr_pc, sent, plog, exitBy, torn, mem, wire>>

\* case result = <-resultsChan
MainSelectResult ==
  /\ main_pc = "select"
  /\ Len(resultsChan) > 0
  /\ result' = Head(resultsChan)
  /\ resultsChan' = Tail(resultsChan)
  /\ main_pc' = "recvPerf"
  /\ UNCHANGED <<clock, cfgVars, hist, framesChan, perfChan, pubChan, errChan,
                 tickerC, doneClosed, sigChan, wg, perf, img, nread, frVars, mr_pc, sent, plog, exitBy, torn, mem, wire>>

\* default: no case is ready
MainSelectDefault ==
  /\ main_pc = "select"
  /\ ~sigChan /\ Len(errChan) = 0 /\ Len(resultsChan) = 0
  /\ main_pc' = "render"
  /\ UNCHANGED <<clock, cfgVars, hist, chanVars, tickerC, doneClosed, sigChan, wg,
                 result, perf, img, nread, frVars, mr_pc, sent, plog, exitBy, torn, mem, wire>>

\* perf = <-perfChan
MainRecvPerf ==
  /\ main_pc = "recvPerf"
  /\ Len(perfChan) > 0
  /\ perf' = Head(perfChan)
  /\ perfChan' = Tail(perfChan)
  /\ main_pc' = "render"
  /\ UNCHANGED <<clock, cfgVars, hist, framesChan, resultsChan, pubChan, errChan,
                 tickerC, doneClosed, sigChan, wg, result, img, nread, frVars, mr_pc, sent, plog, exitBy, torn, mem, wire>>

\* gocv.PutText on img, window.IMShow, window.WaitKey(1): ESC breaks
MainRender ==
  /\ main_pc = "render"
  /\ img' = [img EXCEPT !.drawn = TRUE]
  /\ \E esc \in BOOLEAN :
       /\ main_pc' = IF esc THEN "close" ELSE "read"
       /\ exitBy' = IF esc THEN "esc" ELSE exitBy
  /\ torn' = (fr_pc = "copy")
  /\ UNCHANGED <<clock, cfgVars, hist, chanVars, tickerC, doneClosed, sigChan, wg,
                 result, perf, nread, frVars, mr_pc, sent, plog, mem, wire>>

\* close(doneChan)
MainClose ==
  /\ main_pc = "close"
  /\ doneClosed' = TRUE
  /\ main_pc' = "wait"
  /\ UNCHANGED <<clock, cfgVars, hist, chanVars, tickerC, sigChan, wg,
                 result, perf, img, nread, frVars, mr_pc, sent, plog, exitBy, torn, mem, wire>>

\* wg.Wait() returns, main returns
MainWait ==
  /\ main_pc = "wait"
  /\ wg = 0
  /\ main_pc' = "exited"
  /\ UNCHANGED <<clock, cfgVars, hist, chanVars, tickerC, doneClosed, sigChan, wg,
                 result, perf, img, nread, frVars, mr_pc, sent, plog, exitBy, torn, mem, wire>>

MainNext ==
  \/ MainRead \/ MainReadFail \/ MainSend \/ MainSelectStop \/ MainSelectResult
  \/ MainSelectDefault \/ MainRecvPerf \/ MainRender \/ MainClose \/ MainWait

\* ---- frameRunner
\* case <-doneChan: return nil; errChan <- nil; wg.Done()
FrameRunnerStop ==
  /\ fr_pc = "select"
  /\ doneClosed
  /\ errChan' = Append(errChan, "nil")
  /\ wg' = wg - 1
  /\ fr_pc' = "done"
  /\ UNCHANGED <<clock, cfgVars, hist, framesChan, resultsChan, perfChan, pubChan,
                 tickerC, doneClosed, sigChan, mainVars, fr_status, fr_result, o,
                 mr_pc, sent, plog, torn, mem, wire>>

\* case frame := <-framesChan
FrameRunnerRecv ==
  /\ fr_pc = "select"
  /\ Len(framesChan) > 0
  /\ framesChan' = Tail(framesChan)
  /\ fr_pc' = "copy"
  /\ UNCHANGED <<clock, cfgVars, hist, resultsChan, perfChan, pubChan, errChan,
                 tickerC, doneClosed, sigChan, wg, mainVars, fr_status, fr_result, o,
                 mr_pc, sent, plog, torn, mem, wire>>

\* what detectFaces finds in frameRunner's copy of the buffer.  A copy that
\* overlaps a write of main is a data race: it may hold the image before the
\* write, after it, or a mix of both, in which anything can be detected.
CopiedFaces == IF torn THEN PipeFrames ELSE {img.faces}

\* mutant: the cycle sends no Perf before its Result
FrameRunnerProcess_skipPerf ==
  /\ fr_pc = "copy"
  /\ \E faces \in CopiedFaces :
       LET status == detectStatus(faces)
           o1 == UpdateOperator(o, status, clock)
       IN /\ fr_status' = status
          /\ o' = o1
          /\ fr_result' = NewResult(o1, status, clock, img.id)
  /\ fr_pc' = "sendResult"
  /\ torn' = FALSE
  /\ UNCHANGED <<clock, cfgVars, hist, chanVars, tickerC, doneClosed, sigChan, wg,
                 mainVars, mr_pc, sent, plog, mem, wire>>

\* frame.CopyTo(&img) reads main's buffer as it is when the copy is made,
\* which is not the moment the pointer was sent; then detectFaces,
\* detectStatus, the operator update and the new Result
FrameRunnerProcess ==
  /\ fr_pc = "copy"
  /\ \E faces \in CopiedFaces :
       LET status == detectStatus(faces)
           o1 == UpdateOperator(o, status, clock)
       IN /\ fr_status' = status
          /\ o' = o1
          /\ fr_result' = NewResult(o1, status, clock, img.id)
  /\ fr_pc' = "sendPerf"
  /\ torn' = FALSE
  /\ UNCHANGED <<clock, cfgVars, hist, chanVars, tickerC, doneClosed, sigChan, wg,
                 mainVars, mr_pc, sent, plog, mem, wire>>

\* mutant: the Perf is dropped when perfChan is full
FrameRunnerSendPerf_dropWhenFull ==
  /\ fr_pc = "sendPerf"
  /\ perfChan' = IF Len(perfChan) < ChanCap
                 THEN Append(perfChan, [id |-> fr_result.id, checked |-> fr_status.checked])
                 ELSE perfChan
  /\ fr_pc' = "sendResult"
  /\ UNCHANGED <<clock, cfgVars, hist, framesChan, resultsChan, pubChan, errChan,
                 tickerC, doneClosed, sigChan, wg, mainVars, fr_status, fr_result, o,
                 mr_pc, sent, plog, torn, mem, wire>>

\* perfChan <- getPerformanceInfo(...)
FrameRunnerSendPerf ==
  /\ fr_pc = "sendPerf"
  /\ Len(perfChan) < ChanCap
  /\ perfChan' = Append(perfChan, [id |-> fr_result.id, checked |-> fr_status.checked])
  /\ fr_pc' = "sendResult"
  /\ UNCHANGED <<clock, cfgVars, hist, framesChan, resultsChan, pubChan, errChan,
                 tickerC, doneClosed, sigChan, wg, mainVars, fr_status, fr_result, o,
                 mr_pc, sent, plog, torn, mem, wire>>

\* mutant: the cycle goes on to the send on pubChan with or without -publish
FrameRunnerSendResult_alwaysPub ==
  /\ fr_pc = "sendResult"
  /\ Len(resultsChan) < ChanCap
  /\ resultsChan' = Append(resultsChan, fr_result)
  /\ fr_pc' = "sendPub"
  /\ UNCHANGED <<clock, cfgVars, hist, framesChan, perfChan, pubChan, errChan,
                 tickerC, doneClosed, sigChan, wg, mainVars, fr_status, fr_result, o,
                 mr_pc, sent, plog, torn, mem, wire>>

\* resultsChan <- result; without a pubChan the cycle ends here
FrameRunnerSendResult ==
  /\ fr_pc = "sendResult"
  /\ Len(resultsChan) < ChanCap
  /\ resultsChan' = Append(resultsChan, fr_result)
  /\ IF publish
     THEN fr_pc' = "sendPub" /\ o' = o
     ELSE fr_pc' = "select" /\ o' = SetPrev(o, fr_status)
  /\ UNCHANGED <<clock, cfgVars, hist, framesChan, perfChan, pubChan, errChan,
                 tickerC, doneClosed, sigChan, wg, mainVars, fr_status, fr_result,
                 mr_pc, sent, plog, torn, mem, wire>>

\* pubChan <- result, then the end of the cycle
FrameRunnerSendPubStep ==
  /\ fr_pc = "sendPub"
  /\ Len(pubChan) < ChanCap
  /\ pubChan' = Append(pubChan, fr_result)
  /\ o' = SetPrev(o, fr_status)
  /\ fr_pc' = "select"
  /\ UNCHANGED <<clock, cfgVars, hist, framesChan, resultsChan, perfChan, errChan,
                 tickerC, doneClosed, sigChan, wg, mainVars, fr_status, fr_result,
                 mr_pc, sent, torn, mem, wire>>

FrameRunnerSendPub == FrameRunnerSendPubStep /\ UNCHANGED plog

FrameRunnerNext ==
  \/ FrameRunnerStop \/ FrameRunnerRecv \/ FrameRunnerProcess
  \/ FrameRunnerSendPerf \/ FrameRunnerSendResult \/ FrameRunnerSendPub

\* ---- messageRunner
\* case <-ticker.C
MessageRunnerTickStep ==
  /\ mr_pc = "select"
  /\ Len(tickerC) > 0
  /\ tickerC' = Tail(tickerC)
  /\ mr_pc' = "recvPub"
  /\ UNCHANGED <<clock, cfgVars, hist, chanVars, doneClosed, sigChan, wg,
                 mainVars, frVars, sent, torn, mem, wire>>

MessageRunnerTick == MessageRunnerTickStep /\ UNCHANGED plog

\* a publish step that returns the error of c.Publish to its caller
MessageRunnerPublishStep_returnErr(err) ==
  /\ mr_pc = "recvPub"
  /\ Len(pubChan) > 0
  /\ pubChan' = Tail(pubChan)
  /\ sent' = IF err THEN sent ELSE Append(sent, Head(pubChan).id)
  /\ mr_pc' = IF err THEN "done" ELSE "select"
  /\ errChan' = IF err THEN Append(errChan, "error") ELSE errChan
  /\ wg' = IF err THEN wg - 1 ELSE wg
  /\ UNCHANGED <<clock, cfgVars, hist, framesChan, resultsChan, perfChan,
                 tickerC, doneClosed, sigChan, mainVars, frVars, torn, mem, wire>>

\* mutant: the Result is published and left in pubChan
MessageRunnerPublishStep_peek(err) ==
  /\ mr_pc = "recvPub"
  /\ Len(pubChan) > 0
  /\ sent' = IF err THEN sent ELSE Append(sent, Head(pubChan).id)
  /\ mr_pc' = "select"
  /\ UNCHANGED <<clock, cfgVars, hist, chanVars, tickerC, doneClosed, sigChan, wg,
                 mainVars, frVars, torn, mem, wire>>

\* result := <-pubChan; c.Publish(topic, result.ToMQTTMessage()), which may
\* fail: the error is printed and the loop goes on
MessageRunnerPublishStep(err) ==
  /\ mr_pc = "recvPub"
  /\ Len(pubChan) > 0
  /\ pubChan' = Tail(pubChan)
  /\ sent' = IF err THEN sent ELSE Append(sent, Head(pubChan).id)
  /\ mr_pc' = "select"
  /\ UNCHANGED <<clock, cfgVars, hist, framesChan, resultsChan, perfChan, errChan,
                 tickerC, doneClosed, sigChan, wg, mainVars, frVars, torn, mem, wire>>

MessageRunnerPublish ==
  \E err \in BOOLEAN : MessageRunnerPublishStep(err) /\ UNCHANGED plog

\* case <-pubChan: discarded between ticks
MessageRunnerDiscard ==
  /\ mr_pc = "select"
  /\ Len(pubChan) > 0
  /\ pubChan' = Tail(pubChan)
  /\ UNCHANGED <<clock, cfgVars, hist, framesChan, resultsChan, perfChan, errChan,
                 tickerC, doneClosed, sigChan, wg, mainVars, frVars, mr_pc, sent, plog, torn, mem, wire>>

\* case <-doneChan: return nil; errChan <- nil; wg.Done()
MessageRunnerStop ==
  /\ mr_pc = "select"
  /\ doneClosed
  /\ errChan' = Append(errChan, "nil")
  /\ wg' = wg - 1
  /\ mr_pc' = "done"
  /\ UNCHANGED <<clock, cfgVars, hist, framesChan, resultsChan, perfChan, pubChan,
                 tickerC, doneClosed, sigChan, mainVars, frVars, sent, plog, torn, mem, wire>>

MessageRunnerNext ==
  \/ MessageRunnerTick \/ MessageRunnerPublish \/ MessageRunnerDiscard
  \/ MessageRunnerStop

\* ---- environment
\* the wall clock advances; every rate units the ticker sends the time on
\* its channel of capacity 1, and drops the tick when the previous one has
\* not been taken
ClockTick ==
  /\ clock < Epoch + MaxClock
  /\ clock' = clock + 1
  /\ tickerC' = IF publish /\ (clock + 1 - Epoch) % rate = 0 /\ Len(tickerC) < ChanCap
                THEN Append(tickerC, clock + 1)
                ELSE tickerC
  /\ UNCHANGED <<cfgVars, hist, chanVars, doneClosed, sigChan, wg,
                 mainVars, frVars, mr_pc, sent, plog, torn, mem, wire>>

\* SIGINT or SIGTERM is delivered to sigChan while the loop runs
Interrupt ==
  /\ main_pc \in {"read", "send", "select", "recvPerf", "render"}
  /\ ~sigChan
  /\ sigChan' = TRUE
  /\ UNCHANGED <<clock, cfgVars, hist, chanVars, tickerC, doneClosed, wg,
                 mainVars, frVars, mr_pc, sent, plog, torn, mem, wire>>

Next == MainNext \/ FrameRunnerNext \/ MessageRunnerNext \/ ClockTick \/ Interrupt

Spec == Init /\ [][Next]_vars

\* The Go scheduler runs every goroutine that can take a step.
FairSpec ==
  Spec /\ WF_vars(MainNext) /\ WF_vars(FrameRunnerNext) /\ WF_vars(MessageRunnerNext)

\* ------------------------------------------- publish worker specification
\* messageRunner with its ticker and its mailbox pubChan, fed by a
\* frameRunner whose frames are always there and whose other sends are
\* always accepted.  plog records what happens at the mailbox, in order.

\* an entry of plog: a Result put into pubChan ("arrive", at clock reading
\* t), a tick taken from ticker.C ("tick", t the time the ticker sent), a
\* c.Publish call ("publish", at clock reading t, ok when it returned no
\* error)
Event(e, id, t, ok) == [e |-> e, id |-> id, t |-> t, ok |-> ok]

Arrivals == {i \in 1..Len(plog) : plog[i].e = "arrive"}
TicksTaken == {i \in 1..Len(plog) : plog[i].e = "tick"}
Publishes == {i \in 1..Len(plog) : plog[i].e = "publish"}

\* frameRunner's iteration up to the send on pubChan: the Results are
\* numbered in the order they are produced
PublisherProduce ==
  /\ fr_pc = "select"
  /\ fr_result.id < MaxResults
  /\ LET status == detectStatus(<<FaceWatchCalm>>)
         o1 == UpdateOperator(o, status, clock)
     IN /\ fr_status' = status
        /\ o' = o1
        /\ fr_result' = NewResult(o1, status, clock, fr_result.id + 1)
  /\ fr_pc' = "sendPub"
  /\ UNCHANGED <<clock, cfgVars, hist, chanVars, tickerC, doneClosed, sigChan, wg,
                 mainVars, mr_pc, sent, plog, torn, mem, wire>>

PublisherArrive ==
  /\ FrameRunnerSendPubStep
  /\ plog' = Append(plog, Event("arrive", fr_result.id, clock, TRUE))

PublisherTick ==
  /\ MessageRunnerTickStep
  /\ plog' = Append(plog, Event("tick", 0, Head(tickerC), TRUE))

PublisherPublish ==
  \E err \in BOOLEAN :
    /\ MessageRunnerPublishStep(err)
    /\ plog' = Append(plog, Event("publish", Head(pubChan).id, clock, ~err))

\* messageRunner is blocked: in its select with no tick and no Result, or in
\* result := <-pubChan with pubChan empty
MessageRunnerWaiting ==
  \/ mr_pc = "select" /\ Len(tickerC) = 0 /\ Len(pubChan) = 0 /\ ~doneClosed
  \/ mr_pc = "recvPub" /\ Len(pubChan) = 0

\* close(doneChan): the orchestrator's shutdown broadcast, at any moment of
\* the publish worker's run
PublisherShutdown ==
  /\ ~doneClosed
  /\ doneClosed' = TRUE
  /\ UNCHANGED <<clock, cfgVars, hist, chanVars, tickerC, sigChan, wg, mainVars,
                 frVars, mr_pc, sent, plog, torn, mem, wire>>

\* messageRunner's own steps take no time: a second passes only while it is
\* blocked
PublisherClockTick == MessageRunnerWaiting /\ ClockTick

\* the program runs with -publish and the default -rate
InitPublisher ==
  /\ watchTimeout = DefaultTimeout
  /\ angryTimeout = DefaultTimeout
  /\ publish = TRUE
  /\ InitRest

NextPublisher ==
  \/ PublisherProduce \/ PublisherArrive
  \/ PublisherTick \/ PublisherPublish \/ MessageRunnerDiscard
  \/ PublisherClockTick
  \/ PublisherShutdown \/ MessageRunnerStop

SpecPublisher == InitPublisher /\ [][NextPublisher]_vars

\* ---------------------------------------------------- tracker: claims
\* the Operator as cycle i found it
Before(i) == IF i = 1 THEN NewOperator ELSE hist[i-1].o

Cycles == 1..Len(hist)

NotWatchingAt(i) == hist[i].status.checked /\ ~hist[i].status.IsWatching
AngryAt(i) == hist[i].status.checked /\ hist[i].status.IsAngry

\* cycle e is a watching -> not-watching transition edge: it is checked and
\* not watching, and the last checked cycle before it was watching
WatchEdgeAt(e) ==
  /\ NotWatchingAt(e)
  /\ \E p \in 1..(e-1) :
       /\ hist[p].status.checked /\ hist[p].status.IsWatching
       /\ \A q \in (p+1)..(e-1) : ~hist[q].status.checked

\* C1: a Result has AlertWatching only if the operator has been not watching
\* on every checked cycle since a watching -> not-watching edge at which
\* timeStoppedWatching was recorded, and more than watchTimeout has elapsed
\* since that edge.
C1_AlertWatchingOnlySustained ==
  \A k \in Cycles :
    hist[k].result.AlertWatching =>
      \E e \in 1..k :
        /\ WatchEdgeAt(e)
        /\ hist[e].o.timeStoppedWatching = hist[e].t
        /\ \A j \in e..k : hist[j].status.checked => ~hist[j].status.IsWatching
        /\ NotWatchingAt(k)
        /\ hist[k].t - hist[e].t > watchTimeout

\* C2: on a checked cycle that finds prev.IsAngry and sets now.IsAngry, the
\* angry alert is raised exactly when the time since timeStartAngry is
\* greater than angryTimeout.
C2_AlertAngryUsesAngryTimeout ==
  \A k \in Cycles :
    (AngryAt(k) /\ Before(k).prev.IsAngry) =>
      (hist[k].result.AlertAngry <=>
         hist[k].t - hist[k].o.timeStartAngry > angryTimeout)

\* C3: in every emitted Result, AlertAngry implies the reported status is
\* angry and AlertWatching implies the reported status is not watching.
C3_AlertImpliesCondition ==
  \A k \in Cycles :
    /\ hist[k].result.AlertAngry => hist[k].result.status.IsAngry
    /\ hist[k].result.AlertWatching => ~hist[k].result.status.IsWatching

\* a cycle raised both alerts
C3_Witness ==
  \E k \in Cycles : hist[k].result.AlertAngry /\ hist[k].result.AlertWatching

\* C7 (Scenario B): an unchecked cycle between two checked angry cycles
\* leaves timeStartAngry as it was, and the second angry cycle raises the
\* alert exactly when the time since that marker exceeds the timeout.
C7_ScenarioB ==
  \A i \in Cycles :
    (i >= 3 /\ AngryAt(i-2) /\ ~hist[i-1].status.checked /\ AngryAt(i)) =>
      /\ hist[i].o.timeStartAngry = hist[i-2].o.timeStartAngry
      /\ hist[i].result.AlertAngry <=>
           hist[i].t - hist[i-2].o.timeStartAngry > angryTimeout

\* C8: an unchecked cycle leaves the prev and now snapshots as they were.
C8_UncheckedKeepsSnapshots ==
  \A i \in Cycles :
    ~hist[i].status.checked =>
      hist[i].o.prev = Before(i).prev /\ hist[i].o.now = Before(i).now

\* C9: an unchecked cycle leaves both temporal markers unchanged.
C9_UncheckedKeepsMarkers ==
  \A i \in Cycles :
    ~hist[i].status.checked =>
      /\ hist[i].o.timeStoppedWatching = Before(i).timeStoppedWatching
      /\ hist[i].o.timeStartAngry = Before(i).timeStartAngry

\* an unchecked cycle right after a checked watching and angry cycle that
\* recorded timeStartAngry
C9_Witness ==
  \E i \in Cycles :
    /\ ~hist[i].status.checked
    /\ Before(i).timeStartAngry # ZeroTime
    /\ Before(i).prev.IsWatching /\ Before(i).prev.IsAngry

\* C10: the Result of an unchecked cycle carries no alert.
C10_UncheckedNoAlert ==
  \A i \in Cycles :
    ~hist[i].status.checked =>
      ~hist[i].result.AlertWatching /\ ~hist[i].result.AlertAngry

\* an unchecked cycle right after a cycle that raised both alerts
C10_Witness ==
  \E i \in Cycles :
    /\ i >= 2
    /\ ~hist[i].status.checked
    /\ hist[i-1].result.AlertWatching /\ hist[i-1].result.AlertAngry

\* ---------------------------------------------------- Scenario A: claims
\* the first not-watching tick, where timeStoppedWatching is recorded
EdgeTick == WatchTicks + 1

\* C11 as stated: with watchTimeout = 5 s and one checked frame per second,
\* watching on the first 2 ticks and not watching from then on, the
\* not-watching alert is false on the not-watching ticks before the sixth and
\* true from the sixth not-watching tick on.
C11_ScenarioA ==
  \A k \in Cycles :
    hist[k].result.AlertWatching <=> k >= WatchTicks + 6

\* C11 amended: the alert is true exactly on the ticks whose time since the
\* edge tick is strictly greater than watchTimeout; the sixth not-watching
\* tick is 5 s after the edge and raises no alert, the seventh is the first
\* that does.
C11_ScenarioA_Amended ==
  \A k \in Cycles :
    hist[k].result.AlertWatching <=> (k - EdgeTick) > watchTimeout

\* the scenario has run past the first alert: no alert 5 s after the edge,
\* the alert 6 s after it
C11_Witness ==
  /\ Len(hist) > EdgeTick + watchTimeout
  /\ hist[EdgeTick].o.timeStoppedWatching = hist[EdgeTick].t
  /\ ~hist[EdgeTick + watchTimeout].result.AlertWatching
  /\ hist[EdgeTick + watchTimeout + 1].result.AlertWatching


\* ---------------------------------------------------- publish worker: claims
\* the tick a Publish call serves: the last one taken before it
TickOf(p) == CHOOSE k \in TicksTaken : k < p /\ \A k2 \in TicksTaken : k2 < p => k2 <= k

\* the tick taken before tick k, 0 when k is the first
PrevTick(k) ==
  IF \E j \in TicksTaken : j < k
  THEN CHOOSE j \in TicksTaken : j < k /\ \A j2 \in TicksTaken : j2 < k => j2 <= j
  ELSE 0

\* the Results that arrived within the publish interval that the tick sent
\* at time T closes
ArrivedIn(T) == {a \in Arrivals : T - rate <= plog[a].t /\ plog[a].t < T}

\* the Results that had arrived when entry k was logged
ArrivedBefore(k) == {a \in Arrivals : a < k}

LastOf(A) == CHOOSE a \in A : \A b \in A : b <= a

\* C12 (Scenario C): when several Results arrived within one publish
\* interval, the Publish call made for the tick that closes the interval
\* carries the last of them: the most recent Result that had arrived when
\* the tick was taken.
C12_ScenarioC ==
  \A p \in Publishes :
    Cardinality(ArrivedIn(plog[TickOf(p)].t)) >= 2 =>
      plog[p].id = plog[LastOf(ArrivedBefore(TickOf(p)))].id

\* C13: a tick taken when no Result has arrived since the tick before it is
\* skipped: every Publish call serves a tick before which a new Result had
\* arrived.
C13_SkipTick ==
  \A p \in Publishes :
    \E a \in Arrivals : PrevTick(TickOf(p)) < a /\ a < TickOf(p)

\* C14: any two Publish calls are at least one ticker interval apart.
C14_OneSendPerInterval ==
  \A p1, p2 \in Publishes :
    p1 < p2 => plog[p2].t - plog[p1].t >= rate

\* ---------------------------------------------------- pipeline: claims
\* C4: once the source has ended and shutdown has been broadcast,
\* frameRunner eventually terminates, whatever it was doing at that moment.
C4_FrameRunnerTerminates == (doneClosed /\ exitBy = "eof") ~> (fr_pc = "done")

\* C5: with publishing enabled, once shutdown has been broadcast
\* messageRunner eventually terminates.
C5_MessageRunnerTerminates == (publish /\ doneClosed) ~> (mr_pc = "done")

\* C6: main is past wg.Wait() only when every started worker has terminated.
C6_JoinBeforeExit ==
  main_pc = "exited" => (fr_pc = "done" /\ (publish => mr_pc = "done"))

\* main has returned from wg.Wait() in a run with both workers, after
\* frameRunner processed a frame
C6_Witness == main_pc = "exited" /\ publish /\ fr_result.id > 0

\* C15: pubChan is a latest-wins holder: a Result written while an earlier
\* one is unread replaces it, so frameRunner's write to the mailbox can
\* always be done, whatever the mailbox holds.
C15_LatestWinsMailbox == fr_pc = "sendPub" => ENABLED FrameRunnerSendPub

\* C16: main is never blocked on resultsChan or perfChan: the Perf of a
\* Result is in perfChan whenever main is about to receive it, and a poll
\* that finds no Result leaves result and perf as they were.
C16_NonBlockingPoll ==
  /\ [](main_pc = "recvPerf" => Len(perfChan) > 0)
  /\ [][(main_pc = "select" /\ main_pc' = "render") =>
          (result' = result /\ perf' = perf)]_vars

\* the poll after the second frame has received a Result and main is at the
\* receive of its Perf
C16_Witness == main_pc = "recvPerf" /\ nread = 2 /\ result.id > 0

\* frameRunner has not returned and cannot take a step
FrameRunnerBlocked == fr_pc # "done" /\ ~ENABLED FrameRunnerNext

\* C17: whenever frameRunner is blocked, it is blocked in its select on
\* doneChan and framesChan.
C17_BlocksOnlyInSelect == FrameRunnerBlocked => fr_pc = "select"

C19_PendingFrameKept ==
  /\ Len(framesChan) <= 1
  /\ \A i \in 1..Len(framesChan) : framesChan[i].submitted = img.id

\* a frame has been submitted and its buffer has not been copied yet:
\* its pointer waits in framesChan or frameRunner has just received it
FrameInFlight == Len(framesChan) > 0 \/ fr_pc = "copy"

\* C20: main does not write the image buffer between the submit of a frame
\* and the end of frameRunner's copy of it.
C20_NoWriteAfterSubmit == [][FrameInFlight => img' = img]_vars

\* ---------------------------------------------------- objects: claims
\* what a reader of emitted Result i finds now
ResultRead(i) ==
  [status |-> mem.obj[mem.results[i].status],
   AlertWatching |-> mem.results[i].AlertWatching,
   AlertAngry |-> mem.results[i].AlertAngry,
   id |-> i]

\* C21: every emitted Result, with the Status it points to, and every
\* emitted Perf reads as it was constructed, whatever frameRunner has done
\* since.
C21_EmittedImmutable ==
  /\ \A i \in 1..Len(mem.results) : ResultRead(i) = mem.results[i].made
  /\ \A i \in 1..Len(mem.perfs) :
       [checked |-> mem.perfs[i].checked] = mem.perfs[i].made

\* a later checked cycle has written other values into *o.now and *o.prev
\* than the Status of the first Result holds
C21_Witness ==
  /\ Len(mem.results) >= 2
  /\ mem.results[1].made.status.checked
  /\ mem.obj[mem.now].IsWatching # mem.results[1].made.status.IsWatching
  /\ mem.obj[mem.prev].IsAngry # mem.results[1].made.status.IsAngry

\* ---------------------------------------------------- publish errors: claims
\* the publish calls that failed
FailedPublishes == { i \in Publishes : ~plog[i].ok }

\* C22: a failing publish call does not stop the publish worker: the step
\* that fails leaves the worker in its select, with nothing put on errChan
\* and the wait group untouched; the worker ends only on the shutdown
\* broadcast, and errChan only ever carries its nil return
C22_PublishErrorKeepsWorker ==
  /\ [](/\ (FailedPublishes # {} /\ mr_pc = "done") => doneClosed
        /\ \A i \in 1..Len(errChan) : errChan[i] = "nil")
  /\ [][(plog' # plog /\ plog'[Len(plog')].e = "publish" /\ ~plog'[Len(plog')].ok)
          => (mr_pc' = "select" /\ errChan' = errChan /\ wg' = wg)]_vars

\* after a failed publish the worker took a later tick, published the next
\* Result, and then returned on the shutdown broadcast
C22_Witness ==
  /\ \E i \in FailedPublishes : \E k \in TicksTaken : \E j \in Publishes :
        i < k /\ k < j /\ plog[j].ok
  /\ mr_pc = "done"
  /\ errChan = <<"nil">>

\* ---------------------------------------------------- shutdown: claims
InLoop == main_pc \in {"read", "send", "select", "recvPerf", "render"}
PastBroadcast == main_pc \in {"wait", "exited"}

\* C23: on every way out of the monitor loop the shutdown broadcast is made
\* exactly once, only after the loop has been left, and is followed by the
\* wait: the loop is left only to close(doneChan) with a recorded way out
\* and doneChan still open, the only step from there closes doneChan and
\* goes to wg.Wait(), doneChan is closed by no other step, and main never
\* comes back to the loop or to the close
C23_BroadcastOnceAfterLoop ==
  /\ [](/\ doneClosed <=> PastBroadcast
        /\ InLoop => exitBy = "none"
        /\ main_pc = "close" => (exitBy \in {"signal", "error", "eof", "esc"} /\ ENABLED MainClose))
  /\ [][/\ (InLoop /\ ~InLoop') => main_pc' = "close"
        /\ doneClosed' # doneClosed => (main_pc = "close" /\ main_pc' = "wait" /\ doneClosed')
        /\ main_pc = "close" => main_pc' \in {"close", "wait"}
        /\ PastBroadcast => PastBroadcast']_vars

\* the loop was left on a signal, doneChan is closed and main waits for
\* workers that have not returned yet
C23_Witness ==
  /\ exitBy = "signal"
  /\ main_pc = "wait"
  /\ doneClosed
  /\ wg > 0

\* ---------------------------------------------------- markers: claims
\* the checked cycles between i and j
CheckedIn(i, j) == { k \in i..j : hist[k].status.checked }

\* cycle e is a not-angry -> angry transition edge: it is checked and angry,
\* and the last checked cycle before it, if there is one, was not angry
AngryEdgeAt(e) ==
  /\ AngryAt(e)
  /\ \A p \in CheckedIn(1, e-1) :
       CheckedIn(p+1, e-1) = {} => ~hist[p].status.IsAngry

\* C24: a temporal marker is written only on the transition edge into its
\* condition, and from a checked cycle that shows the condition up to a
\* later one, with the condition on every checked cycle between them
\* (unchecked cycles may lie between), the marker keeps its value.
C24_MarkersOnlyOnEdge ==
  /\ \A i \in Cycles :
       /\ hist[i].o.timeStoppedWatching # Before(i).timeStoppedWatching => WatchEdgeAt(i)
       /\ hist[i].o.timeStartAngry # Before(i).timeStartAngry => AngryEdgeAt(i)
  /\ \A i \in Cycles : \A j \in Cycles :
       i < j =>
         /\ (\A k \in CheckedIn(i, j) : ~hist[k].status.IsWatching) /\ NotWatchingAt(i)
              => hist[j].o.timeStoppedWatching = hist[i].o.timeStoppedWatching
         /\ (\A k \in CheckedIn(i, j) : hist[k].status.IsAngry) /\ AngryAt(i)
              => hist[j].o.timeStartAngry = hist[i].o.timeStartAngry

\* ---------------------------------------------------- telemetry payload
\* Texts are sequences of characters.
MaxPayloads == 2

Quote == "\""
TrueText == <<"t", "r", "u", "e">>
FalseText == <<"f", "a", "l", "s", "e">>
WatchingKey == <<"W", "a", "t", "c", "h", "i", "n", "g">>
AngryKey == <<"A", "n", "g", "r", "y">>

\* the verb %v applied to a bool
FormatBool(b) == IF b THEN TrueText ELSE FalseText

\* a payload that prints the two values in each other's place
ToMQTTMessage_swapped(r) ==
  <<"{", Quote>> \o WatchingKey \o <<Quote, ":">> \o FormatBool(r.status.IsAngry)
    \o <<",", " ", Quote>> \o AngryKey \o <<Quote, ":", " ">>
    \o FormatBool(r.status.IsWatching) \o <<"}">>

\* fmt.Sprintf("{\"Watching\":%v, \"Angry\": %v}", r.status.IsWatching, r.status.IsAngry)
ToMQTTMessage(r) ==
  <<"{", Quote>> \o WatchingKey \o <<Quote, ":">> \o FormatBool(r.status.IsWatching)
    \o <<",", " ", Quote>> \o AngryKey \o <<Quote, ":", " ">>
    \o FormatBool(r.status.IsAngry) \o <<"}">>

\* ---- reading a payload back: a JSON object whose members are booleans
IsPrefix(p, t) == Len(p) <= Len(t) /\ SubSeq(t, 1, Len(p)) = p
Drop(t, n) == SubSeq(t, n + 1, Len(t))

RECURSIVE SkipSpace(_)
SkipSpace(t) == IF t # <<>> /\ Head(t) = " " THEN SkipSpace(Tail(t)) ELSE t

ParseBool(t) ==
  IF IsPrefix(TrueText, t) THEN [ok |-> TRUE, val |-> TRUE, rest |-> Drop(t, Len(TrueText))]
  ELSE IF IsPrefix(FalseText, t)
       THEN [ok |-> TRUE, val |-> FALSE, rest |-> Drop(t, Len(FalseText))]
       ELSE [ok |-> FALSE, val |-> FALSE, rest |-> t]

\* the characters up to the closing quote
RECURSIVE ReadKey(_, _)
ReadKey(t, acc) ==
  IF t = <<>> THEN [ok |-> FALSE, val |-> acc, rest |-> t]
  ELSE IF Head(t) = Quote THEN [ok |-> TRUE, val |-> acc, rest |-> Tail(t)]
       ELSE ReadKey(Tail(t), Append(acc, Head(t)))

ParseKey(t) ==
  IF t # <<>> /\ Head(t) = Quote THEN ReadKey(Tail(t), <<>>)
  ELSE [ok |-> FALSE, val |-> <<>>, rest |-> t]

NoObject == [ok |-> FALSE, members |-> {}]

\* the members "key": bool, separated by commas, up to the closing brace
RECURSIVE ParseMembers(_, _)
ParseMembers(t, acc) ==
  LET k == ParseKey(SkipSpace(t))
      c == SkipSpace(k.rest)
      v == ParseBool(SkipSpace(Tail(c)))
      e == SkipSpace(v.rest)
      acc1 == acc \cup {<<k.val, v.val>>}
  IN IF ~k.ok \/ c = <<>> THEN NoObject
     ELSE IF Head(c) # ":" THEN NoObject
     ELSE IF ~v.ok \/ e = <<>> THEN NoObject
     ELSE IF Head(e) = "}" THEN [ok |-> SkipSpace(Tail(e)) = <<>>, members |-> acc1]
     ELSE IF Head(e) = "," THEN ParseMembers(Tail(e), acc1)
     ELSE NoObject

ParseObject(t) ==
  LET b == SkipSpace(t)
  IN IF b = <<>> THEN NoObject
     ELSE IF Head(b) # "{" THEN NoObject
     ELSE ParseMembers(Tail(b), {})

HasMember(obj, key) == \E m \in obj.members : m[1] = key
Member(obj, key) == (CHOOSE m \in obj.members : m[1] = key)[2]

\* the two booleans read from a payload
ParsePayload(t) ==
  LET obj == ParseObject(t)
  IN IF obj.ok /\ HasMember(obj, WatchingKey) /\ HasMember(obj, AngryKey)
     THEN [ok |-> TRUE, Watching |-> Member(obj, WatchingKey), Angry |-> Member(obj, AngryKey)]
     ELSE [ok |-> FALSE, Watching |-> FALSE, Angry |-> FALSE]

NotRead == [ok |-> FALSE, Watching |-> FALSE, Angry |-> FALSE]

\* ---- payload specification: Results over every status detectStatus
\* returns and every pair of alert flags are serialized, and the payloads
\* are read back
PayloadSerialize ==
  /\ Len(wire) < MaxPayloads
  /\ \E faces \in SourceFrames : \E aw \in BOOLEAN : \E aa \in BOOLEAN :
       LET r == [status |-> detectStatus(faces), AlertWatching |-> aw,
                 AlertAngry |-> aa, id |-> Len(wire) + 1]
       IN /\ fr_result' = r
          /\ wire' = Append(wire, [of |-> r, payload |-> ToMQTTMessage(r),
                                   read |-> FALSE, parsed |-> NotRead])
  /\ UNCHANGED <<clock, hist, pipeVars, fr_pc, fr_status, o, mem>>

PayloadParse ==
  /\ \E i \in 1..Len(wire) :
       /\ ~wire[i].read
       /\ wire' = [wire EXCEPT ![i].read = TRUE, ![i].parsed = ParsePayload(wire[i].payload)]
  /\ UNCHANGED <<clock, hist, pipeVars, frVars, mem>>

NextPayload == PayloadSerialize \/ PayloadParse

SpecPayload == InitPublisher /\ [][NextPayload]_vars

\* ---------------------------------------------------- telemetry payload: claims
\* C26: for every combination of status booleans and alert flags, the
\* payload of a Result read back gives exactly the Result's watching and
\* angry values, and two Results with the same status booleans have the
\* same payload whatever their alert flags.
C26_RoundTrip ==
  /\ \A i \in 1..Len(wire) :
       wire[i].read =>
         /\ wire[i].parsed.ok
         /\ wire[i].parsed.Watching = wire[i].of.status.IsWatching
         /\ wire[i].parsed.Angry = wire[i].of.status.IsAngry
  /\ \A i \in 1..Len(wire) : \A j \in 1..Len(wire) :
       (/\ wire[i].of.status.IsWatching = wire[j].of.status.IsWatching
        /\ wire[i].of.status.IsAngry = wire[j].of.status.IsAngry)
         => wire[i].payload = wire[j].payload

\* two Results with the same status, watching and not angry, and opposite
\* alert flags have been serialized and read back
C26_Witness ==
  /\ Len(wire) = 2
  /\ wire[1].read /\ wire[2].read
  /\ wire[1].of.status.IsWatching /\ ~wire[1].of.status.IsAngry
  /\ wire[2].of.status = wire[1].of.status
  /\ wire[1].of.AlertWatching /\ wire[1].of.AlertAngry
  /\ ~wire[2].of.AlertWatching /\ ~wire[2].of.AlertAngry

\* ---------------------------------------------------- sustained alert: claims
\* C27: when the cycles from the last watching one on are all checked and
\* the operator is not watching from the edge cycle e on, every cycle after
\* e at which more than watchTimeout has elapsed since e emits a Result with
\* AlertWatching.
C27_SustainedNotWatchingAlerts ==
  \A e \in Cycles : \A k \in Cycles :
    (/\ e > 1 /\ e < k
     /\ hist[e-1].status.checked /\ hist[e-1].status.IsWatching
     /\ \A j \in e..k : NotWatchingAt(j)
     /\ hist[k].t - hist[e].t > watchTimeout)
      => hist[k].result.AlertWatching

\* a watching cycle, the edge, and a not-watching cycle more than
\* watchTimeout later, under a watch timeout shorter than the angry one
C27_Witness ==
  /\ Len(hist) = 3
  /\ watchTimeout < angryTimeout
  /\ hist[1].status.checked /\ hist[1].status.IsWatching
  /\ NotWatchingAt(2) /\ NotWatchingAt(3)
  /\ hist[3].t - hist[2].t > watchTimeout
  /\ hist[3].t - hist[2].t <= angryTimeout
  /\ hist[3].result.AlertWatching

\* ---------------------------------------------------- detection specification
\* frameRunner's call of detectStatus on the faces detectFaces found in the
\* frame it received
DetectCycle ==
  /\ \E faces \in DetectFrames :
       /\ img' = [id |-> 1, faces |-> faces, drawn |-> FALSE]
       /\ fr_status' = detectStatus(faces)
  /\ UNCHANGED <<clock, cfgVars, hist, chanVars, tickerC, doneClosed, sigChan, wg,
                 main_pc, result, perf, nread, exitBy, fr_pc, fr_result, o,
                 mr_pc, sent, plog, torn, mem, wire>>

SpecDetect == InitScenarioA /\ [][DetectCycle]_vars

\* ---------------------------------------------------- detection: claims
\* the regions of the frame that lie completely inside it, in order
ValidFaces == SelectSeq(img.faces, LAMBDA f : f.inside)
LastValid == ValidFaces[Len(ValidFaces)]

\* C28: for a frame with several valid face regions the returned watching
\* and angry are the pose and emotion result of the last processed region
\* alone.
C28_LastRegionWins ==
  Len(ValidFaces) >= 2 =>
    /\ fr_status.IsWatching = PoseWatching(LastValid)
    /\ fr_status.IsAngry = SentAngry(LastValid)

\* C29: the outcome is checked exactly when some located region lies
\* completely inside the frame; the other regions have no part in the
\* outcome, which is that of the frame without them; and with no region
\* inside the outcome is unchecked.
C29_CheckedIffFaceInside ==
  /\ fr_status.checked <=> (\E i \in 1..Len(img.faces) : img.faces[i].inside)
  /\ fr_status = detectStatus(ValidFaces)
  /\ ValidFaces = <<>> => fr_status = NewStatus

\* a frame whose only region lies partly outside, with a watching pose and
\* an angry mood, has been classified
C29_Witness ==
  /\ Len(img.faces) = 1
  /\ ~img.faces[1].inside
  /\ PoseWatching(img.faces[1]) /\ SentAngry(img.faces[1])
  /\ ~fr_status.checked

\* C30: for a frame with exactly one valid face region, watching is true
\* exactly when yaw and pitch are both strictly between -22.5 and +22.5
\* degrees, whatever the roll.
C30_WatchingStrictBounds ==
  (Len(img.faces) = 1 /\ img.faces[1].inside) =>
    (fr_status.IsWatching <=>
       /\ -PoseLimit < img.faces[1].yaw /\ img.faces[1].yaw < PoseLimit
       /\ -PoseLimit < img.faces[1].pitch /\ img.faces[1].pitch < PoseLimit)

\* one valid face with the yaw on the bound, the pitch inside and a roll
\* of 45 degrees has been classified as not watching
C30_Witness ==
  /\ Len(img.faces) = 1 /\ img.faces[1].inside
  /\ img.faces[1].yaw = PoseLimit /\ img.faces[1].pitch = 0
  /\ img.faces[1].roll = 2 * PoseLimit
  /\ fr_status.checked /\ ~fr_status.IsWatching

\* the confidence of the angry class is the highest one; strictly, when no
\* other class reaches it
AngryHighest(f) == \A i \in 1..Len(f.sent) : f.sent[i] <= f.sent[AngryRow + 1]
AngryStrictlyHighest(f) ==
  \A i \in 1..Len(f.sent) : i # AngryRow + 1 => f.sent[i] < f.sent[AngryRow + 1]

C32_AngryOnlyWhenWatching == fr_status.IsAngry => fr_status.IsWatching

\* ---------------------------------------------------- workers: claims
\* the worker goroutines that have been started and have not returned
LiveWorkers ==
  (IF fr_pc # "done" THEN 1 ELSE 0) + (IF mr_pc \notin {"none", "done"} THEN 1 ELSE 0)

\* C33: there are at most two workers, as many as the wait group counts, at
\* every moment of the run; messageRunner exists exactly when -publish is
\* given; without -publish frameRunner never reaches the send on pubChan,
\* pubChan stays empty and nothing is published.
C33_WorkersAndPublish ==
  /\ wg = LiveWorkers
  /\ wg <= 2
  /\ mr_pc # "none" <=> publish
  /\ ~publish => (fr_pc # "sendPub" /\ pubChan = <<>> /\ sent = <<>>)

\* without -publish frameRunner has finished the cycles of two frames and
\* is the only worker
C33_Witness ==
  /\ ~publish
  /\ fr_result.id = 2
  /\ fr_pc = "select"
  /\ Len(resultsChan) > 0
  /\ wg = 1

\* ---------------------------------------------------- flow specification
\* The pipeline while the monitor loop runs: the source delivers up to
\* MaxFlowFrames frames, no signal arrives and no read fails, so doneChan
\* stays open.
MaxFlowFrames == 4

\* vc.Read(&img) delivers the next frame
FlowRead ==
  /\ main_pc = "read"
  /\ nread < MaxFlowFrames
  /\ \E faces \in PipeFrames :
       img' = [id |-> nread + 1, faces |-> faces, drawn |-> FALSE]
  /\ nread' = nread + 1
  /\ main_pc' = "send"
  /\ torn' = (fr_pc = "copy")
  /\ UNCHANGED <<clock, cfgVars, hist, chanVars, tickerC, doneClosed, sigChan, wg,
                 result, perf, frVars, mr_pc, sent, plog, exitBy, mem, wire>>

\* gocv.PutText on img, window.IMShow, window.WaitKey(1) with no key pressed
FlowRender ==
  /\ main_pc = "render"
  /\ img' = [img EXCEPT !.drawn = TRUE]
  /\ main_pc' = "read"
  /\ torn' = (fr_pc = "copy")
  /\ UNCHANGED <<clock, cfgVars, hist, chanVars, tickerC, doneClosed, sigChan, wg,
                 result, perf, nread, exitBy, frVars, mr_pc, sent, plog, mem, wire>>

FlowMainNext ==
  \/ FlowRead \/ MainSend \/ MainSelectResult \/ MainSelectDefault
  \/ MainRecvPerf \/ FlowRender

FlowFrameRunnerNext ==
  \/ FrameRunnerRecv \/ FrameRunnerProcess
  \/ FrameRunnerSendPerf \/ FrameRunnerSendResult \/ FrameRunnerSendPub

FlowMessageRunnerNext ==
  \/ MessageRunnerTick \/ MessageRunnerPublish \/ MessageRunnerDiscard

NextFlow == FlowMainNext \/ FlowFrameRunnerNext \/ FlowMessageRunnerNext \/ ClockTick

SpecFlow == Init /\ [][NextFlow]_vars

\* ---------------------------------------------------- flow: claims
\* main is blocked in framesChan <- &img
MainBlockedSubmit == main_pc = "send" /\ Len(framesChan) = ChanCap

\* frameRunner is blocked in one of its sends
BlockedSendPerf == fr_pc = "sendPerf" /\ Len(perfChan) = ChanCap
BlockedSendResult == fr_pc = "sendResult" /\ Len(resultsChan) = ChanCap
BlockedSendPub == fr_pc = "sendPub" /\ Len(pubChan) = ChanCap

SameCycle(p, r) ==
  /\ p.id = r.id
  /\ r.id > 0 => p.checked = r.status.checked

\* C35: when main has taken a Result from resultsChan, the Perf of the same
\* cycle is at the head of perfChan, and the Result and the Perf main
\* renders belong to the same frame.
C35_ResultPerfSameFrame ==
  /\ main_pc = "recvPerf" => (Len(perfChan) > 0 /\ SameCycle(Head(perfChan), result))
  /\ main_pc = "render" => SameCycle(perf, result)
  /\ \A i \in 1..Len(resultsChan) :
       Len(perfChan) >= i /\ SameCycle(perfChan[i], resultsChan[i])

\* main renders the Result and the Perf of the third frame
C35_Witness ==
  /\ main_pc = "render"
  /\ result.id = 3 /\ perf.id = 3

\* ---------------------------------------------------- rendering: claims
\* the status pointer of the Result is nil
StatusUnset(r) == "nil" \in DOMAIN r.status

\* C36: every Result main renders has its status set, the placeholder of
\* before the first received Result included.
C36_RenderedStatusSet == main_pc = "render" => ~StatusUnset(result)

\* ---------------------------------------------------- shutdown and frames: claims
\* C37: once doneChan is closed frameRunner takes no frame from framesChan.
C37_NoFrameAfterShutdown ==
  [][doneClosed => framesChan' = framesChan]_vars

\* ---------------------------------------------------- published sequence: claims
\* C38: the Results handed to the publish call, failed calls included, are
\* a subsequence of the Results frameRunner produced: each was put into
\* pubChan before its publish call, they are published in the order of
\* production and none twice; the successful ones are recorded in sent in
\* the same order.
C38_PublishedSubsequence ==
  /\ \A p \in Publishes :
       /\ plog[p].id \in 1..fr_result.id
       /\ \E a \in Arrivals : a < p /\ plog[a].id = plog[p].id
  /\ \A p \in Publishes : \A q \in Publishes : p < q => plog[p].id < plog[q].id
  /\ \A i \in 1..Len(sent) : \A j \in 1..Len(sent) : i < j => sent[i] < sent[j]
  /\ \A i \in 1..Len(sent) : \E p \in Publishes : plog[p].ok /\ plog[p].id = sent[i]

\* the first and the third Result were published and the second, which
\* was produced between them, was discarded
C38_Witness == sent = <<1, 3>>

\* ---------------------------------------------------- error channel: claims
\* the workers that have returned
ReturnedWorkers ==
  (IF fr_pc = "done" THEN 1 ELSE 0) + (IF mr_pc = "done" THEN 1 ELSE 0)

\* C39: errChan is empty while the monitor loop runs and up to the close
\* of doneChan: it holds one value per worker that has returned, a worker
\* returns only with doneChan closed, and the loop is never left through
\* the errChan case.
C39_ErrChanEmptyInLoop ==
  /\ (InLoop \/ main_pc = "close") => errChan = <<>>
  /\ Len(errChan) = ReturnedWorkers
  /\ ReturnedWorkers > 0 => doneClosed
  /\ exitBy # "error"

\* both workers have returned after the source ran out of frames and each
\* has sent its nil on errChan
C39_Witness ==
  /\ exitBy = "eof"
  /\ nread = MaxFrames
  /\ errChan = <<"nil", "nil">>
  /\ main_pc = "exited"

====
